---------------------------- MODULE Spec2Model ----------------------------
(***************************************************************************)
(* A model of tools/cice_bry.py: the boundary variable catalog (BryVar,    *)
(* load_bry_vars, omnibry_var), the boundary dataset accessor (CiceBry)    *)
(* and the TOPAZ derivation engine (CiceBryHax.write_bry_data).            *)
(*                                                                         *)
(* Text the code edits is a sequence of one-character strings so that     *)
(* str.replace is computed, not assumed; names that are only compared are  *)
(* strings (Str converts).  Real numbers are fixed-point                   *)
(* pairs <<i, f>> standing for i + f * 1e-7 with 0 <= f < 10^7, which      *)
(* holds the category limits (0.6445072 ... 1e+08) exactly in 32 bits.     *)
(* Calendar dates are whole day numbers.                                   *)
(***************************************************************************)
EXTENDS Integers, Sequences, FiniteSets, TLC

VARIABLES
    obj,          \* "none" before the constructor ran, "live", "failed" (it raised)
    mode,         \* self.mode
    file,         \* the dataset stored at the path self.bry_file (NoFile: no such path)
    orphans,      \* open datasets the object no longer refers to (never closed by it)
    bry,          \* self.bry: Absent (attribute never assigned) or a dataset
    grid,         \* self.grid: Absent, None or a dataset
    clm,          \* self.clm
    atm,          \* self.atm
    dim_sizes,    \* self.dim_sizes: NoDims or [sizes |-> dimension name -> size]
    start_date,   \* self.start_date: NoDate or a day number
    end_date,     \* self.end_date
    time_units,   \* self.time_units: NoUnits or a units record
    bry_vars,     \* self.bry_vars: the sequence of BryVar objects
    res,          \* the outcome of the last call made on the object
    hist,         \* history of the run: set_dims was called, runs of the destructor
    fn,           \* the pure function under study ("none" when the object is studied)
    arg,          \* its arguments
    ret           \* its result (NoRet before it is applied)

objVars == <<obj, mode, file, orphans, bry, grid, clm, atm, dim_sizes,
             start_date, end_date, time_units, bry_vars, res, hist>>
pureVars == <<fn, arg, ret>>
vars == <<obj, mode, file, orphans, bry, grid, clm, atm, dim_sizes,
          start_date, end_date, time_units, bry_vars, res, hist, fn, arg, ret>>

NoRet == [status |-> "not applied"]
NoFile == [exists |-> FALSE]

\* values of a dataset attribute other than a dataset
Absent == [st |-> "absent"]      \* the attribute was never assigned (hasattr is false)
None == [st |-> "None"]          \* the attribute is None

\* self.dim_sizes before set_dims assigns it
NoDims == [none |-> TRUE]

----------------------------------------------------------------------------
(* Bounds of the model.                                                    *)

MaxPieces == 3       \* most pieces of a template text of the omnibry_var study
MaxAxisLen == 3      \* longest time axis of the date studies
MaxDay == 2          \* largest day number of the date studies
MaxThick == 5        \* largest whole-metre thickness of the category study
NEta == 2            \* size of the eta axis of the source grids
NXi == 2             \* size of the xi axis of the source grids
MaxNz == 2           \* largest number of vertical ice levels (nkice)
MaxDays == 2         \* largest number of days of a boundary period
MaxOrphans == 1      \* most datasets one object replaces while they are open
MaxDels == 2         \* most runs of the destructor

----------------------------------------------------------------------------
(* Text.                                                                   *)

RECURSIVE Replace(_, _, _)
\* Python's s.replace(old, new) for a non-empty old: the occurrences are
\* taken left to right and do not overlap.
Replace(s, old, new) ==
    LET found == { k \in 1..(Len(s) - Len(old) + 1) : SubSeq(s, k, k + Len(old) - 1) = old }
    IN  IF found = {} THEN s
        ELSE LET k == CHOOSE m \in found : \A x \in found : m <= x
             IN  SubSeq(s, 1, k - 1) \o new \o Replace(SubSeq(s, k + Len(old), Len(s)), old, new)

\* old occurs in s (Python's `old in s`)
Contains(s, old) ==
    \E k \in 1..(Len(s) - Len(old) + 1) : SubSeq(s, k, k + Len(old) - 1) = old

RECURSIVE Str(_)
\* a text whose letters the code no longer edits, as one string
Str(s) ==
    IF s = <<>> THEN ""
    ELSE IF Len(s) = 1 THEN s[1]
    ELSE LET half == Len(s) \div 2
         IN  Str(SubSeq(s, 1, half)) \o Str(SubSeq(s, half + 1, Len(s)))

S_BRY == <<"B","R","Y">>
S_xi_t == <<"x","i","_","t">>
S_eta_t == <<"e","t","a","_","t">>

----------------------------------------------------------------------------
(* The boundary variable catalog.                                          *)

BryVar(name, dtype, dims, attrs) ==
    [name |-> name, dtype |-> dtype, dims |-> dims, attrs |-> attrs]

bry_order == <<"W", "S", "E", "N">>

bry_to_coor == [W |-> S_eta_t, S |-> S_xi_t, E |-> S_eta_t, N |-> S_xi_t]

\* a variant of BryCoor that takes the along-boundary axes the wrong way round
BryCoorSwapped(b) == IF b \in {"W", "E"} THEN S_xi_t ELSE S_eta_t

\* the coordinate omnibry_var substitutes into the dimension names of wall b
BryCoor(b) == bry_to_coor[b]

\* one BryVar per boundary wall, in the order of bry_order
OmnibryVar(name, dtype, dims, attrs, bry_replace) ==
    [i \in 1..Len(bry_order) |->
        LET b == bry_order[i] IN
        BryVar(Replace(name, bry_replace, <<b>>),
               dtype,
               [k \in DOMAIN dims |-> Replace(dims[k], bry_replace, BryCoor(b))],
               [key \in DOMAIN attrs |-> Replace(attrs[key], bry_replace, <<b>>)])]

\* Character sequences of the string literals of load_bry_vars.
S_Time == <<"T","i","m","e">>
S_days == <<"d","a","y","s">>
S_Ice_layers == <<"I","c","e","_","l","a","y","e","r","s">>
S_nkice == <<"n","k","i","c","e">>
S_TLON_BRY == <<"T","L","O","N","_","B","R","Y">>
S_TLAT_BRY == <<"T","L","A","T","_","B","R","Y">>
S_Tsfc_BRY_bry == <<"T","s","f","c","_","B","R","Y","_","b","r","y">>
S_ice_types == <<"i","c","e","_","t","y","p","e","s">>
S_aicen_BRY_bry == <<"a","i","c","e","n","_","B","R","Y","_","b","r","y">>
S_vicen_BRY_bry == <<"v","i","c","e","n","_","B","R","Y","_","b","r","y">>
S_vsnon_BRY_bry == <<"v","s","n","o","n","_","B","R","Y","_","b","r","y">>
S_apond_BRY_bry == <<"a","p","o","n","d","_","B","R","Y","_","b","r","y">>
S_hpond_BRY_bry == <<"h","p","o","n","d","_","B","R","Y","_","b","r","y">>
S_ipond_BRY_bry == <<"i","p","o","n","d","_","B","R","Y","_","b","r","y">>
S_fbrine_BRY_bry == <<"f","b","r","i","n","e","_","B","R","Y","_","b","r","y">>
S_hbrine_BRY_bry == <<"h","b","r","i","n","e","_","B","R","Y","_","b","r","y">>
S_iage_BRY_bry == <<"i","a","g","e","_","B","R","Y","_","b","r","y">>
S_alvln_BRY_bry == <<"a","l","v","l","n","_","B","R","Y","_","b","r","y">>
S_vlvln_BRY_bry == <<"v","l","v","l","n","_","B","R","Y","_","b","r","y">>
S_Tinz_BRY_bry == <<"T","i","n","z","_","B","R","Y","_","b","r","y">>
S_Sinz_BRY_bry == <<"S","i","n","z","_","B","R","Y","_","b","r","y">>

\* the catalog as load_bry_vars spells it, letter by letter
LoadBryVarsText ==
    <<BryVar(S_Time, "int16", <<S_days>>,
         [long_name |-> <<"m","o","d","e","l"," ","t","i","m","e">>, units |-> <<"d","a","y","s"," ","s","i","n","c","e"," ","2","0","0","8","-","0","1","-","0","1"," ","0","0",":","0","0",":","0","0">>])>>
    \o <<BryVar(S_Ice_layers, "int16", <<S_nkice>>,
         [long_name |-> <<"v","e","r","t","i","c","a","l"," ","i","c","e"," ","l","e","v","e","l","s">>, units |-> <<"1">>])>>
    \o OmnibryVar(S_TLON_BRY, "float", <<S_BRY>>,
         [long_name |-> <<"T"," ","g","r","i","d"," ","c","e","n","t","e","r"," ","l","o","n","g","i","t","u","d","e"," ","-"," ","B","R","Y"," ","b","o","u","n","d","a","r","y">>, units |-> <<"d","e","g","r","e","e","s","_","e","a","s","t">>], S_BRY)
    \o OmnibryVar(S_TLAT_BRY, "float", <<S_BRY>>,
         [long_name |-> <<"T"," ","g","r","i","d"," ","c","e","n","t","e","r"," ","l","a","t","i","t","u","d","e"," ","-"," ","B","R","Y"," ","b","o","u","n","d","a","r","y">>, units |-> <<"d","e","g","r","e","e","s","_","n","o","r","t","h">>], S_BRY)
    \o OmnibryVar(S_Tsfc_BRY_bry, "float", <<S_days, S_ice_types, S_BRY>>,
         [long_name |-> <<"s","n","o","w","/","i","c","e"," ","s","u","r","f","a","c","e"," ","t","e","m","p","e","r","a","t","u","r","e"," ","-"," ","B","R","Y"," ","b","o","u","n","d","a","r","y">>], S_BRY)
    \o OmnibryVar(S_aicen_BRY_bry, "float", <<S_days, S_ice_types, S_BRY>>,
         [long_name |-> <<"i","c","e"," ","a","r","e","a"," ","(","a","g","g","r","e","g","a","t","e",")"," ","-"," ","B","R","Y"," ","b","o","u","n","d","a","r","y">>], S_BRY)
    \o OmnibryVar(S_vicen_BRY_bry, "float", <<S_days, S_ice_types, S_BRY>>,
         [long_name |-> <<"g","r","i","d"," ","c","e","l","l"," ","m","e","a","n"," ","i","c","e"," ","t","h","i","c","k","n","e","s","s"," ","-"," ","B","R","Y"," ","b","o","u","n","d","a","r","y">>, units |-> <<"m">>], S_BRY)
    \o OmnibryVar(S_vsnon_BRY_bry, "float", <<S_days, S_ice_types, S_BRY>>,
         [long_name |-> <<"g","r","i","d"," ","c","e","l","l"," ","m","e","a","n"," ","s","n","o","w"," ","t","h","i","c","k","n","e","s","s"," ","-"," ","B","R","Y"," ","b","o","u","n","d","a","r","y">>, units |-> <<"m">>], S_BRY)
    \o OmnibryVar(S_apond_BRY_bry, "float", <<S_days, S_ice_types, S_BRY>>,
         [long_name |-> <<"m","e","l","t"," ","p","o","n","d"," ","f","r","a","c","t","i","o","n"," ","-"," ","B","R","Y"," ","b","o","u","n","d","a","r","y">>, units |-> <<"1">>], S_BRY)
    \o OmnibryVar(S_hpond_BRY_bry, "float", <<S_days, S_ice_types, S_BRY>>,
         [long_name |-> <<"m","e","a","n"," ","m","e","l","t"," ","p","o","n","d"," ","d","e","p","t","h"," ","-"," ","B","R","Y"," ","b","o","u","n","d","a","r","y">>, units |-> <<"m">>], S_BRY)
    \o OmnibryVar(S_ipond_BRY_bry, "float", <<S_days, S_ice_types, S_BRY>>,
         [long_name |-> <<"m","e","a","n"," ","m","e","l","t"," ","p","o","n","d"," ","i","c","e"," ","t","h","i","c","k","n","e","s","s"," ","-"," ","B","R","Y"," ","b","o","u","n","d","a","r","y">>, units |-> <<"m">>], S_BRY)
    \o OmnibryVar(S_fbrine_BRY_bry, "float", <<S_days, S_ice_types, S_BRY>>,
         [long_name |-> <<"r","a","t","i","o"," ","o","f"," ","b","r","i","n","e"," ","t","r","a","c","e","r"," ","h","e","i","g","h","t"," ","t","o"," ","i","c","e"," ","t","h","i","c","k","n","e","s","s"," ","-"," ","B","R","Y"," ","b","o","u","n","d","a","r","y">>, units |-> <<"1">>], S_BRY)
    \o OmnibryVar(S_hbrine_BRY_bry, "float", <<S_days, S_ice_types, S_BRY>>,
         [long_name |-> <<"b","r","i","n","e"," ","s","u","r","f","a","c","e"," ","h","e","i","g","h","t"," ","a","b","o","v","e"," ","s","e","a"," ","i","c","e"," ","b","a","s","e"," ","-"," ","B","R","Y"," ","b","o","u","n","d","a","r","y">>, units |-> <<"m">>], S_BRY)
    \o OmnibryVar(S_iage_BRY_bry, "float", <<S_days, S_ice_types, S_BRY>>,
         [long_name |-> <<"i","c","e"," ","a","g","e"," ","-"," ","B","R","Y"," ","b","o","u","n","d","a","r","y">>], S_BRY)
    \o OmnibryVar(S_alvln_BRY_bry, "float", <<S_days, S_ice_types, S_BRY>>,
         [long_name |-> <<"c","o","n","c","e","n","t","r","a","t","i","o","n"," ","o","f"," ","l","e","v","e","l"," ","i","c","e"," ","-"," ","B","R","Y"," ","b","o","u","n","d","a","r","y">>, units |-> <<"1">>], S_BRY)
    \o OmnibryVar(S_vlvln_BRY_bry, "float", <<S_days, S_ice_types, S_BRY>>,
         [long_name |-> <<"v","o","l","u","m","e"," ","p","e","r"," ","u","n","i","t"," ","o","f"," ","a","r","e","a"," ","o","f"," ","l","e","v","e","l"," ","i","c","e"," ","-"," ","B","R","Y"," ","b","o","u","n","d","a","r","y">>, units |-> <<"m">>], S_BRY)
    \o OmnibryVar(S_Tinz_BRY_bry, "float", <<S_days, S_ice_types, S_nkice, S_BRY>>,
         [long_name |-> <<"v","e","r","t","i","c","a","l"," ","t","e","m","p","e","r","a","t","u","r","e"," ","p","r","o","f","i","l","e"," ","-"," ","B","R","Y"," ","b","o","u","n","d","a","r","y">>], S_BRY)
    \o OmnibryVar(S_Sinz_BRY_bry, "float", <<S_days, S_ice_types, S_nkice, S_BRY>>,
         [long_name |-> <<"v","e","r","t","i","c","a","l"," ","s","a","l","i","n","i","t","y"," ","p","r","o","f","i","l","e"," ","-"," ","B","R","Y"," ","b","o","u","n","d","a","r","y">>], S_BRY)

\* a catalog entry with its texts as strings
StrVar(v) ==
    [name |-> Str(v.name), dtype |-> v.dtype,
     dims |-> [k \in DOMAIN v.dims |-> Str(v.dims[k])],
     attrs |-> [key \in DOMAIN v.attrs |-> Str(v.attrs[key])]]

\* load_bry_vars(): the list self.bry_vars
LoadBryVars == [i \in DOMAIN LoadBryVarsText |-> StrVar(LoadBryVarsText[i])]

----------------------------------------------------------------------------
(* Fixed-point numbers <<i, f>> = i + f * 1e-7, 0 <= f < 10^7.  NaN is a   *)
(* value of its own: every comparison with it is false.                    *)

Ticks == 10^7

NaN == <<0, -1>>

IsNaN(x) == x[2] < 0

Norm(i, f) == <<i + (f \div Ticks), f % Ticks>>

Fx(i, f) == <<i, f>>

Zero == Fx(0, 0)

\* x < y and x > y of IEEE numbers (false when either is NaN)
Less(x, y) ==
    /\ ~IsNaN(x) /\ ~IsNaN(y)
    /\ (x[1] < y[1] \/ (x[1] = y[1] /\ x[2] < y[2]))

Greater(x, y) == Less(y, x)

Add(x, y) == IF IsNaN(x) \/ IsNaN(y) THEN NaN ELSE Norm(x[1] + y[1], x[2] + y[2])

Sub(x, y) == IF IsNaN(x) \/ IsNaN(y) THEN NaN ELSE Norm(x[1] - y[1], x[2] - y[2])

\* x * k for a small integer k
MulInt(x, k) == IF IsNaN(x) THEN NaN ELSE Norm(x[1] * k, x[2] * k)

\* x / k for a small integer k > 0, rounded down to a tick
DivInt(x, k) ==
    IF IsNaN(x) THEN NaN
    ELSE <<x[1] \div k, ((x[1] % k) * Ticks + x[2]) \div k>>

\* x * (t / 10): the product with a number given in tenths
MulTenths(x, t) == DivInt(MulInt(x, t), 10)

AbsFx(x) == IF IsNaN(x) THEN NaN ELSE IF x[1] < 0 THEN Sub(Zero, x) ELSE x

\* 0-based positions of a Python list held as a 1-based sequence
Idx0(s) == 0..(Len(s) - 1)
At0(s, k) == s[k + 1]

Min(S) == CHOOSE m \in S : \A x \in S : m <= x

Abs(n) == IF n < 0 THEN -n ELSE n


----------------------------------------------------------------------------
(* Time axes.  A time variable of a dataset holds numeric offsets and a    *)
(* units attribute "days since <day>"; num2date and date2num convert       *)
(* between offsets and calendar days.                                      *)

\* the day number standing for "no date" (None); calendar days are >= 0
NoDate == 0 - 1

\* the units standing for "no units" (None)
NoUnits == [none |-> TRUE]

Num2Date(v, units) == units.since + v

Date2Num(d, units) == d - units.since

\* get_time_array: the axis as stored (float) or decoded (datetime)
GetTimeArray(time_var, return_type) ==
    IF return_type = "float"
    THEN [status |-> "ok", time |-> time_var.vals]
    ELSE IF return_type = "datetime"
    THEN [status |-> "ok",
          time |-> [k \in DOMAIN time_var.vals |-> Num2Date(time_var.vals[k], time_var.units)]]
    ELSE [status |-> "TypeError", what |-> return_type]

\* np.where(time == date)[0]: the 0-based positions holding date, ascending
WhereEq(time, date) == { k \in Idx0(time) : At0(time, k) = date }

\* a variant of First that takes the last entry of np.where(...)[0]
Last(idxs) == CHOOSE m \in idxs : \A x \in idxs : x <= m

\* the first entry of np.where(...)[0]
First(idxs) == Min(idxs)

\* get_time_endpoints
GetTimeEndpoints(start, end, time_var) ==
    IF start = NoDate \/ end = NoDate
    THEN [status |-> "ValueError", what |-> "dates not set"]
    ELSE LET time == GetTimeArray(time_var, "datetime").time
             start_idx == WhereEq(time, start)
             end_idx == WhereEq(time, end)
         IN  IF start_idx = {}
             THEN [status |-> "ValueError", what |-> "start date not found", date |-> start]
             ELSE IF end_idx = {}
             THEN [status |-> "ValueError", what |-> "end date not found", date |-> end]
             ELSE [status |-> "ok", start_idx |-> First(start_idx), end_idx |-> First(end_idx)]

\* compute_bry_time: date2num(input_time, time_units)[start_idx:end_idx+1]
ComputeBryTime(start, end, units, time_var) ==
    LET input_time == GetTimeArray(time_var, "datetime").time
        ends == GetTimeEndpoints(start, end, time_var)
    IN  IF ends.status # "ok" THEN ends
        ELSE IF units = NoUnits THEN [status |-> "TypeError", what |-> "time_units not set"]
        ELSE [status |-> "ok",
              bry_time |-> [k \in 1..(ends.end_idx - ends.start_idx + 1) |->
                               Date2Num(input_time[ends.start_idx + k], units)]]


----------------------------------------------------------------------------
(* The state before any object is constructed, and the state in which no   *)
(* pure function is under study.                                           *)

NoObject ==
    /\ obj = "none" /\ mode = "None" /\ file = NoFile /\ orphans = 0
    /\ bry = Absent /\ grid = Absent /\ clm = Absent /\ atm = Absent
    /\ dim_sizes = NoDims /\ start_date = NoDate /\ end_date = NoDate
    /\ time_units = NoUnits /\ bry_vars = <<>>
    /\ res = [op |-> "none", err |-> "none", what |-> ""]
    /\ hist = [set_dims |-> FALSE, dels |-> 0, times |-> <<>>]

NoStudy == fn = "none" /\ arg = <<>> /\ ret = NoRet


----------------------------------------------------------------------------
(* Study of omnibry_var: the templates are drawn in Init, the action       *)
(* applies the method.                                                     *)

Pieces == {S_BRY, <<"B">>, <<"R">>, <<"Y">>, <<"_">>}

RECURSIVE Flatten(_)
Flatten(ps) == IF ps = <<>> THEN <<>> ELSE Head(ps) \o Flatten(Tail(ps))

\* texts made of at most MaxPieces pieces: "BRY", "BRYBRY", "BBRYRY", "BR_Y", ...
TemplTexts ==
    { Flatten(ps) : ps \in UNION { [1..n -> Pieces] : n \in 0..MaxPieces } }

AicenTemplate ==
    BryVar(S_aicen_BRY_bry, "float", <<S_days, S_ice_types, S_BRY>>,
           [long_name |-> <<"i","c","e"," ","a","r","e","a"," ","(","a","g","g","r","e","g","a","t","e",")"," ","-"," ","B","R","Y"," ","b","o","u","n","d","a","r","y">>])
TimeTemplate ==
    BryVar(S_Time, "int16", <<S_days>>,
           [long_name |-> <<"m","o","d","e","l"," ","t","i","m","e">>])

\* a template with one drawn text t as its name, as one of its dimension
\* names or as one of its attribute values; the rest is a template of
\* load_bry_vars with the token (aicen_BRY_bry) or without it (Time)
OmniArgs ==
    UNION { { [base EXCEPT !.name = t],
              [base EXCEPT !.dims = Append(base.dims, t)],
              [base EXCEPT !.dims = <<t>>],
              [base EXCEPT !.attrs = [long_name |-> base.attrs.long_name, units |-> t]] }
            : <<base, t>> \in {AicenTemplate, TimeTemplate} \X TemplTexts }

InitOmnibry ==
    /\ NoObject
    /\ fn = "omnibry_var"
    /\ arg \in OmniArgs
    /\ ret = NoRet

ApplyOmnibryVar ==
    /\ fn = "omnibry_var" /\ ret = NoRet
    /\ ret' = OmnibryVar(arg.name, arg.dtype, arg.dims, arg.attrs, S_BRY)
    /\ UNCHANGED <<fn, arg>>
    /\ UNCHANGED objVars

NextOmnibry == ApplyOmnibryVar

SpecOmnibry == InitOmnibry /\ [][NextOmnibry]_vars

\* the four walls in the order the claim gives them
WallsWSEN == <<"W", "S", "E", "N">>

\* the axis the claim gives each wall
AxisOf(b) == IF b \in {"W", "E"} THEN S_eta_t ELSE S_xi_t

\* r is text s with every occurrence of the token replaced by new: no token
\* is left, putting the token back gives s (new does not occur in the drawn
\* texts), and a text without the token is unchanged
AllReplaced(s, r, new) ==
    /\ ~Contains(r, S_BRY)
    /\ Replace(r, new, S_BRY) = s
    /\ (~Contains(s, S_BRY) => r = s)

(* C3: omnibry_var returns exactly 4 specs in the order W, S, E, N; in the
   spec of wall d every occurrence of BRY in the name and in each attribute
   value is replaced by d, every occurrence in each dimension name by eta_t
   (W, E) or xi_t (S, N); texts without the token are unchanged. *)
C3_OmnibryExpansion ==
    (fn = "omnibry_var" /\ ret # NoRet) =>
        /\ Len(ret) = 4
        /\ \A i \in 1..4 :
            LET d == WallsWSEN[i] IN
            /\ AllReplaced(arg.name, ret[i].name, <<d>>)
            /\ ret[i].dtype = arg.dtype
            /\ DOMAIN ret[i].dims = DOMAIN arg.dims
            /\ \A k \in DOMAIN arg.dims :
                   AllReplaced(arg.dims[k], ret[i].dims[k], AxisOf(d))
            /\ DOMAIN ret[i].attrs = DOMAIN arg.attrs
            /\ \A key \in DOMAIN arg.attrs :
                   AllReplaced(arg.attrs[key], ret[i].attrs[key], <<d>>)

\* a template whose name and dimension hold the token twice has been expanded
C3_Witness ==
    /\ fn = "omnibry_var" /\ ret # NoRet
    /\ \E t \in {arg.name} \cup {arg.dims[k] : k \in DOMAIN arg.dims} :
           Contains(t, S_BRY \o S_BRY)
    /\ Contains(arg.attrs.long_name, S_BRY)


----------------------------------------------------------------------------
(* Study of get_time_endpoints.                                            *)

\* the time axes of the studies: at most MaxAxisLen offsets in 0..MaxDay
Axes == UNION { [1..n -> 0..MaxDay] : n \in 0..MaxAxisLen }

Days == 0..(MaxDay + 1)

InitEndpoints ==
    /\ NoObject
    /\ fn = "get_time_endpoints"
    /\ arg \in [time_var : [vals : Axes, units : [since : {0, 1}]],
                start : Days \cup {NoDate},
                end : Days \cup {NoDate}]
    /\ ret = NoRet

ApplyGetTimeEndpoints ==
    /\ fn = "get_time_endpoints" /\ ret = NoRet
    /\ ret' = GetTimeEndpoints(arg.start, arg.end, arg.time_var)
    /\ UNCHANGED <<fn, arg>>
    /\ UNCHANGED objVars

NextEndpoints == ApplyGetTimeEndpoints

SpecEndpoints == InitEndpoints /\ [][NextEndpoints]_vars

\* the calendar day stored at 0-based position k of the drawn axis
DecodedAt(k) == arg.time_var.units.since + arg.time_var.vals[k + 1]

\* the 0-based positions of the drawn axis whose decoded day is d
PositionsOf(d) == { k \in 0..(Len(arg.time_var.vals) - 1) : DecodedAt(k) = d }

(* C2: when both dates occur in the decoded axis, get_time_endpoints returns
   the smallest index decoding to start_date and the smallest decoding to
   end_date; when either does not occur it fails with a not-found error and
   returns no indices, whatever nearby dates the axis holds. *)
C2_ExactEndpoints ==
    (fn = "get_time_endpoints" /\ ret # NoRet /\ arg.start # NoDate /\ arg.end # NoDate) =>
        IF PositionsOf(arg.start) # {} /\ PositionsOf(arg.end) # {}
        THEN /\ ret.status = "ok"
             /\ ret.start_idx \in PositionsOf(arg.start)
             /\ \A k \in PositionsOf(arg.start) : ret.start_idx <= k
             /\ ret.end_idx \in PositionsOf(arg.end)
             /\ \A k \in PositionsOf(arg.end) : ret.end_idx <= k
        ELSE /\ ret.status = "ValueError"
             /\ DOMAIN ret \cap {"start_idx", "end_idx"} = {}
             /\ ret.what \in {"start date not found", "end date not found"}
             /\ PositionsOf(ret.date) = {}
             /\ ret.date \in {arg.start, arg.end}

\* both dates occur more than once and the lookup has run
C2_WitnessFound ==
    /\ fn = "get_time_endpoints" /\ ret # NoRet
    /\ arg.start # NoDate /\ arg.end # NoDate /\ arg.start # arg.end
    /\ Cardinality(PositionsOf(arg.start)) > 1
    /\ PositionsOf(arg.end) # {}
    /\ ret.status = "ok" /\ ret.start_idx > 0


----------------------------------------------------------------------------
(* Nearest atmosphere index: (np.abs(atm_dates - clm_date)).argmin().      *)

\* np.abs(atm_dates - date): the distance in days of every entry
AbsDiff(atm_dates, date) == [k \in DOMAIN atm_dates |-> Abs(atm_dates[k] - date)]

\* a variant of Better with which a later equal entry replaces the candidate
BetterOrEqual(x, y) == x <= y

\* the comparison argmin replaces its candidate with
Better(x, y) == x < y

RECURSIVE ArgMinFrom(_, _, _)
\* ndarray.argmin scanning from 1-based position k with best as the candidate
ArgMinFrom(a, k, best) ==
    IF k > Len(a) THEN best
    ELSE ArgMinFrom(a, k + 1, IF Better(a[k], a[best]) THEN k ELSE best)

\* ndarray.argmin of a non-empty array, as a 0-based index
ArgMin(a) == ArgMinFrom(a, 2, 1) - 1

\* atm_idx of one time step
AtmIdx(atm_dates, clm_date) == ArgMin(AbsDiff(atm_dates, clm_date))

InitAtmIdx ==
    /\ NoObject
    /\ fn = "atm_idx"
    /\ arg \in [atm_dates : Axes \ {<<>>}, clm_date : Days]
    /\ ret = NoRet

ApplyAtmIdx ==
    /\ fn = "atm_idx" /\ ret = NoRet
    /\ ret' = [status |-> "ok", atm_idx |-> AtmIdx(arg.atm_dates, arg.clm_date)]
    /\ UNCHANGED <<fn, arg>>
    /\ UNCHANGED objVars

NextAtmIdx == ApplyAtmIdx

SpecAtmIdx == InitAtmIdx /\ [][NextAtmIdx]_vars

\* |atm_dates[i] - c| for the drawn arguments, i 0-based
Dist(i) == LET d == arg.atm_dates[i + 1] - arg.clm_date IN IF d < 0 THEN 0 - d ELSE d

(* C9: the atmosphere index used for climatology date c is the smallest
   index i minimising |atm_dates[i] - c|: no entry is nearer, every earlier
   entry is strictly farther; an exact match is not required. *)
C9_NearestAtmIndex ==
    (fn = "atm_idx" /\ ret # NoRet) =>
        /\ ret.atm_idx \in 0..(Len(arg.atm_dates) - 1)
        /\ \A j \in 0..(Len(arg.atm_dates) - 1) : Dist(ret.atm_idx) <= Dist(j)
        /\ \A j \in 0..(ret.atm_idx - 1) : Dist(j) > Dist(ret.atm_idx)

\* c lies exactly midway between two atmosphere dates, neither equal to c,
\* the later date stored first, and the lower index was chosen
C9_WitnessMidway ==
    /\ fn = "atm_idx" /\ ret # NoRet
    /\ \E i, j \in 0..(Len(arg.atm_dates) - 1) :
          /\ i < j /\ ret.atm_idx = i
          /\ arg.atm_dates[i + 1] > arg.clm_date
          /\ arg.atm_dates[j + 1] < arg.clm_date
          /\ Dist(i) = Dist(j) /\ Dist(i) > 0

----------------------------------------------------------------------------
(* Ice categories.                                                         *)

\* self.cat_lims = [0, 0.6445072, 1.391433, 2.470179, 4.567288, 1e+08]
cat_lims == <<Fx(0, 0), Fx(0, 6445072), Fx(1, 3914330), Fx(2, 4701790),
              Fx(4, 5672880), Fx(10^8, 0)>>

\* a variant of Categories that leaves the thickest category out
CategoriesButLast == 0..(Len(Tail(cat_lims)) - 2)

\* range(len(self.cat_lims[1:]))
Categories == 0..(Len(Tail(cat_lims)) - 1)

\* a variant of CatMask whose upper comparison is <=
CatMaskClosedAbove(h, n) ==
    /\ Greater(h, At0(cat_lims, n))
    /\ (Less(h, At0(cat_lims, n + 1)) \/ h = At0(cat_lims, n + 1))

\* np.logical_and(hice > cat_lims[n], hice < cat_lims[n+1]) at one point
CatMask(h, n) == Greater(h, At0(cat_lims, n)) /\ Less(h, At0(cat_lims, n + 1))

\* thickness values of the study: whole metres -1..MaxThick with fractions
\* at, just below and just above every limit, the top limit and beyond, NaN
LimFracs == {0, 6445072, 3914330, 4701790, 5672880}

HVals ==
    { Fx(i, f) : i \in (0 - 1)..MaxThick,
                 f \in UNION { {g - 1, g, g + 1} \cap 0..(Ticks - 1) : g \in LimFracs \cup {Ticks} } }
    \cup { Fx(10^8 - 1, Ticks - 1), Fx(10^8, 0), Fx(10^8, 1), Fx(2 * 10^8, 0), NaN }

InitCatMask ==
    /\ NoObject
    /\ fn = "cat_mask"
    /\ arg \in [hice : HVals]
    /\ ret = NoRet

ApplyCatMask ==
    /\ fn = "cat_mask" /\ ret = NoRet
    /\ ret' = [n \in Categories |-> CatMask(arg.hice, n)]
    /\ UNCHANGED <<fn, arg>>
    /\ UNCHANGED objVars

NextCatMask == ApplyCatMask

SpecCatMask == InitCatMask /\ [][NextCatMask]_vars

\* the category table as the claim states it
ClaimTable == <<<<0, 0>>, <<0, 6445072>>, <<1, 3914330>>, <<2, 4701790>>,
                <<4, 5672880>>, <<10^8, 0>>>>

\* x < y for two numbers that are not NaN
Below(x, y) == x[1] < y[1] \/ (x[1] = y[1] /\ x[2] < y[2])

\* h is a number strictly inside the table that equals no threshold
InsideOffThreshold(h) ==
    /\ h[2] >= 0
    /\ Below(ClaimTable[1], h) /\ Below(h, ClaimTable[6])
    /\ \A k \in 1..6 : h # ClaimTable[k]

(* C7: for every thickness h the category mask is true for at most one n in
   0..4; for exactly one when h lies strictly inside the table and equals no
   threshold, namely the n with table[n] < h < table[n+1]; for none when h
   equals a threshold (h = 0 included) or lies outside; h = 1.0 gives
   category 1 only. *)
C7_CategoryMask ==
    (fn = "cat_mask" /\ ret # NoRet) =>
        LET on == { n \in 0..4 : ret[n] } IN
        /\ DOMAIN ret = 0..4
        /\ Cardinality(on) <= 1
        /\ (InsideOffThreshold(arg.hice) <=> Cardinality(on) = 1)
        /\ \A n \in on : Below(ClaimTable[n + 1], arg.hice) /\ Below(arg.hice, ClaimTable[n + 2])
        /\ (arg.hice = <<1, 0>> => on = {1})

\* the mask has been computed for h = 1.0 and for a threshold value
C7_WitnessOne == fn = "cat_mask" /\ ret # NoRet /\ arg.hice = <<1, 0>> /\ ret[1]


----------------------------------------------------------------------------
(* The source datasets.  A grid, climatology or atmosphere file is named   *)
(* by a small number (its seed) and its arrays are computed from it, so    *)
(* that every combination of thickness, concentration and land mask occurs *)
(* at a boundary point of some file.  Arrays are indexed from 0 as in      *)
(* numpy: [t, eta, xi] and [t, s, eta, xi].                                *)

\* thickness values: in category 0, in category 1, on a limit, no ice, in category 0
HiceVals == <<Fx(0, 5000000), Fx(1, 0), Fx(1, 3914330), Fx(0, 0), Fx(0, 3000000)>>
\* concentration in tenths
AiceVals == <<5, 10>>
ToceVals == <<Fx(0 - 2, 2000000), Fx(1, 0)>>
TairVals == <<Fx(0 - 10, 0), Fx(2, 5000000)>>
SaltVals == <<Fx(35, 0), Fx(30, 0)>>

Pick(vals, k) == vals[(k % Len(vals)) + 1]

\* the number of distinct climatology fields
NClmFields == Len(HiceVals) * Len(AiceVals)

ClmCell(seed, t, eta, xi) == seed + 5 * t + 3 * eta + xi

\* clm.variables["hice"][t, eta, xi] and the other climatology arrays
Hice(seed, t, eta, xi) == Pick(HiceVals, ClmCell(seed, t, eta, xi))
Aice10(seed, t, eta, xi) == Pick(AiceVals, ClmCell(seed, t, eta, xi) \div Len(HiceVals))
Toce(seed, t, eta, xi) == Pick(ToceVals, ClmCell(seed, t, eta, xi))
Salt(seed, t, eta, xi) == Pick(SaltVals, ClmCell(seed, t, eta, xi) \div 2)
\* atm.variables["Tair"][t, eta, xi]
Tair(seed, t, eta, xi) == Pick(TairVals, seed + t + eta + xi)
\* grid.variables["mask_rho"][eta, xi]: 0/1
MaskRho(seed, eta, xi) == (seed + eta + xi) % 2
\* grid.variables["lon_rho"][eta, xi] and lat_rho, in whole degrees
LonRho(seed, eta, xi) == Fx(seed + xi, 0)
LatRho(seed, eta, xi) == Fx(60 + eta, 0)

\* the concentration as a number
Tenths(t) == Norm(0, t * (Ticks \div 10))

----------------------------------------------------------------------------
(* _get_bry_slice: the boundary transect of a 2-d [eta, xi] array.  A      *)
(* transect is the sequence of the <<eta, xi>> positions it selects.       *)

GridSlice2d(b) ==
    IF b = "W" THEN [j \in 1..NEta |-> <<j - 1, 0>>]
    ELSE IF b = "S" THEN [i \in 1..NXi |-> <<0, i - 1>>]
    ELSE IF b = "E" THEN [j \in 1..NEta |-> <<j - 1, NXi - 1>>]
    ELSE [i \in 1..NXi |-> <<NEta - 1, i - 1>>]

\* clm_3d and clm_4d select the same positions of the two trailing axes
ClmSlice3d(b) == GridSlice2d(b)

----------------------------------------------------------------------------
(* The derivation engine: the body of the (time, category, wall) loop of   *)
(* write_bry_data.  data maps a variable name to what was written into it, *)
(* keyed by the leading indices <<bry_idx, n>>; a value is one number per  *)
(* transect point (3-d variables) or per level and point (4-d).            *)

\* "<pre>{}<post>".format(b)
Fmt(pre, b, post) == pre \o b \o post

VarAicen(b) == Fmt("aicen_", b, "_bry")
VarVicen(b) == Fmt("vicen_", b, "_bry")
VarVsnon(b) == Fmt("vsnon_", b, "_bry")
VarTsfc(b) == Fmt("Tsfc_", b, "_bry")
VarSinz(b) == Fmt("Sinz_", b, "_bry")
VarTinz(b) == Fmt("Tinz_", b, "_bry")
VarTLON(b) == Fmt("TLON_", b, "")
VarTLAT(b) == Fmt("TLAT_", b, "")

zero_vars_3d == <<S_iage_BRY_bry,
                  S_apond_BRY_bry,
                  S_hpond_BRY_bry,
                  S_ipond_BRY_bry,
                  S_fbrine_BRY_bry,
                  S_hbrine_BRY_bry,
                  S_alvln_BRY_bry,
                  S_vlvln_BRY_bry>>

\* np.linspace(start, stop, num)[k], k 0-based; the last sample is stop
Linspace(start, stop, num, k) ==
    IF num > 1 /\ k = num - 1 THEN stop
    ELSE IF k = 0 THEN start
    ELSE Add(start, DivInt(MulInt(Sub(stop, start), k), num - 1))

\* np.where(cond, x, y) at one point
Where(cond, x, y) == IF cond THEN x ELSE y

\* data with value written at variable[key]
Put(data, name, key, value) == [data EXCEPT ![name] = (key :> value) @@ @]

\* 0.2 * x
Times02(x) == MulTenths(x, 2)

\* a variant of VsnonRow with the factor 2 in place of 0.2
VsnonRowFactor2(cat_mask, vicen_stored, land_mask) ==
    [p \in DOMAIN cat_mask |->
        MulInt(Where(cat_mask[p], MulInt(vicen_stored[p], 2), Zero), land_mask[p])]

\* the snow volume row: np.where(cat_mask, 0.2*vicen[bslice], 0.0)*land_mask
VsnonRow(cat_mask, vicen_stored, land_mask) ==
    [p \in DOMAIN cat_mask |->
        MulInt(Where(cat_mask[p], Times02(vicen_stored[p]), Zero), land_mask[p])]

\* var.replace("BRY", b) for every var of zero_vars_3d and every wall b
ZeroVarNames ==
    [b \in { bry_order[i] : i \in DOMAIN bry_order } |->
        [k \in DOMAIN zero_vars_3d |-> Str(Replace(zero_vars_3d[k], S_BRY, <<b>>))]]

\* lines 562-563: for var in zero_vars_3d, the variable of wall b is set to
\* 0.0 at bslice
ZeroVars(data, b, bslice, zero) ==
    [name \in DOMAIN data |->
        IF \E k \in DOMAIN zero_vars_3d : ZeroVarNames[b][k] = name
        THEN (bslice :> zero) @@ data[name]
        ELSE data[name]]

\* a variant of StoredRow that reads the row of the last time index the
\* variable holds for the category
StoredRowLastTime(data, name, bslice) ==
    LET keys == { key \in DOMAIN data[name] : key[2] = bslice[2] }
    IN  data[name][CHOOSE key \in keys : \A other \in keys : other[1] <= key[1]]

\* self.bry.variables[name][bslice] read back from the boundary file
StoredRow(data, name, bslice) == data[name][bslice]

\* the statements of the loop body that assign to the boundary file: aicen,
\* vicen, vsnon, Tsfc, Sinz, Tinz, the loop over zero_vars_3d
NStmts == 7

\* statement k of the loop body for (clm_idx, n, b), run on the file
\* contents data
EngineStmt(data, cseed, aseed, gseed, clm_idx, bry_idx, atm_idx, n, b, nz, k) ==
    LET cslice == ClmSlice3d(b)
        pts == DOMAIN cslice
        bslice == <<bry_idx, n>>
        hice == [p \in pts |-> Hice(cseed, clm_idx, cslice[p][1], cslice[p][2])]
        aice == [p \in pts |-> Aice10(cseed, clm_idx, cslice[p][1], cslice[p][2])]
        tair == [p \in pts |-> Tair(aseed, atm_idx, cslice[p][1], cslice[p][2])]
        toce == [p \in pts |-> Toce(cseed, clm_idx, cslice[p][1], cslice[p][2])]
        salt == [p \in pts |-> Salt(cseed, clm_idx, cslice[p][1], cslice[p][2])]
        land_mask == [p \in pts |-> MaskRho(gseed, cslice[p][1], cslice[p][2])]
        cat_mask == [p \in pts |-> CatMask(hice[p], n)]
        snow_mask == [p \in pts |-> Greater(StoredRow(data, VarVsnon(b), bslice)[p], Fx(0, 100000))]
        temp_interp_ice == [z \in 1..nz |-> [p \in pts |->
                               Linspace(toce[p], tair[p], nz, z - 1)]]
        temp_interp_sno == [z \in 1..nz |-> [p \in pts |->
                               Linspace(toce[p],
                                        Sub(toce[p], Times02(AbsFx(Sub(toce[p], tair[p])))),
                                        nz, z - 1)]]
    IN  IF k = 1
        THEN Put(data, VarAicen(b), bslice,
                 [p \in pts |-> MulInt(Where(cat_mask[p], Tenths(aice[p]), Zero), land_mask[p])])
        ELSE IF k = 2
        THEN Put(data, VarVicen(b), bslice,
                 [p \in pts |-> MulInt(Where(cat_mask[p], MulTenths(hice[p], aice[p]), Zero),
                                       land_mask[p])])
        ELSE IF k = 3
        THEN Put(data, VarVsnon(b), bslice,
                 VsnonRow(cat_mask, StoredRow(data, VarVicen(b), bslice), land_mask))
        ELSE IF k = 4
        THEN Put(data, VarTsfc(b), bslice,
                 [p \in pts |-> MulInt(Where(cat_mask[p], tair[p], Zero), land_mask[p])])
        ELSE IF k = 5
        THEN Put(data, VarSinz(b), bslice,
                 [z \in 1..nz |-> [p \in pts |->
                     MulInt(Where(cat_mask[p],
                                  Linspace(salt[p], Times02(salt[p]), nz, z - 1),
                                  Fx(5, 0)), land_mask[p])]])
        ELSE IF k = 6
        THEN Put(data, VarTinz(b), bslice,
                 [z \in 1..nz |-> [p \in pts |->
                     MulInt(Where(cat_mask[p],
                                  Where(snow_mask[p], temp_interp_sno[z][p], temp_interp_ice[z][p]),
                                  Fx(0 - 5, 0)), land_mask[p])]])
        ELSE ZeroVars(data, b, bslice, [p \in pts |-> Zero])

RECURSIVE StmtsUpTo(_, _, _, _, _, _, _, _, _, _, _)
\* the statements 1..k of the loop body, in order; a statement has stored
\* its values in the file before the next one starts
StmtsUpTo(data, cseed, aseed, gseed, clm_idx, bry_idx, atm_idx, n, b, nz, k) ==
    IF k = 0 THEN data
    ELSE LET before == StmtsUpTo(data, cseed, aseed, gseed, clm_idx, bry_idx, atm_idx, n, b, nz,
                                 k - 1)
         IN  IF DOMAIN before = DOMAIN data
             THEN EngineStmt(before, cseed, aseed, gseed, clm_idx, bry_idx, atm_idx, n, b, nz, k)
             ELSE before

\* the loop body for (clm_idx, n, b)
EngineStep(data, cseed, aseed, gseed, clm_idx, bry_idx, atm_idx, n, b, nz) ==
    StmtsUpTo(data, cseed, aseed, gseed, clm_idx, bry_idx, atm_idx, n, b, nz, NStmts)


----------------------------------------------------------------------------
(* Study of one engine step on a dataset that holds every catalog          *)
(* variable and no data yet.                                               *)

\* the names of the catalog variables
CatalogNames == { LoadBryVars[k].name : k \in DOMAIN LoadBryVars }

EmptyData == [v \in CatalogNames |-> <<>>]

InitEngine ==
    /\ NoObject
    /\ fn = "engine_step"
    /\ arg \in { [cseed |-> c, aseed |-> t, gseed |-> g,
                  clm_idx |-> t, bry_idx |-> t, atm_idx |-> 1 - t,
                  n |-> n, b |-> b, nz |-> nz] :
                 c \in 0..(NClmFields - 1), g \in 0..1, t \in 0..1,
                 n \in Categories, b \in {"W", "S", "E", "N"}, nz \in 1..MaxNz }
    /\ ret = NoRet

ApplyEngineStep ==
    /\ fn = "engine_step" /\ ret = NoRet
    /\ ret' = [status |-> "ok",
               data |-> EngineStep(EmptyData, arg.cseed, arg.aseed, arg.gseed, arg.clm_idx,
                                   arg.bry_idx, arg.atm_idx, arg.n, arg.b, arg.nz)]
    /\ UNCHANGED <<fn, arg>>
    /\ UNCHANGED objVars

NextEngine == ApplyEngineStep

SpecEngine == InitEngine /\ [][NextEngine]_vars

\* what the studied step stored in variable <pre><wall>_bry at its (t, n)
Stored(pre) == ret.data[Fmt(pre, arg.b, "_bry")][<<arg.bry_idx, arg.n>>]

\* the source cell behind along-boundary point p of the studied wall
CellOf(p) ==
    IF arg.b = "W" THEN <<p - 1, 0>>
    ELSE IF arg.b = "S" THEN <<0, p - 1>>
    ELSE IF arg.b = "E" THEN <<p - 1, NXi - 1>>
    ELSE <<NEta - 1, p - 1>>

\* point p is ocean (land mask 1) and its thickness lies in category n
InCategoryOnOcean(p) ==
    LET h == Hice(arg.cseed, arg.clm_idx, CellOf(p)[1], CellOf(p)[2]) IN
    /\ MaskRho(arg.gseed, CellOf(p)[1], CellOf(p)[2]) = 1
    /\ Below(ClaimTable[arg.n + 1], h) /\ Below(h, ClaimTable[arg.n + 2])

\* thickness x concentration at point p, masked by nothing
UnmaskedVolume(p) ==
    MulTenths(Hice(arg.cseed, arg.clm_idx, CellOf(p)[1], CellOf(p)[2]),
              Aice10(arg.cseed, arg.clm_idx, CellOf(p)[1], CellOf(p)[2]))

(* C8: after an engine step the stored snow volume equals 0.2 times the ice
   volume the step stored at the same (t, n, point), is 0 wherever that ice
   volume is 0, and is 0 at every point outside category n or on land. *)
C8_SnowFromMaskedIce ==
    (fn = "engine_step" /\ ret # NoRet) =>
        \A p \in DOMAIN Stored("vsnon_") :
            LET vsnon == Stored("vsnon_")[p]
                vicen == Stored("vicen_")[p]
            IN  /\ vsnon = DivInt(MulInt(vicen, 2), 10)
                /\ (vicen = <<0, 0>> => vsnon = <<0, 0>>)
                /\ (~InCategoryOnOcean(p) => vsnon = <<0, 0>>)
                /\ (InCategoryOnOcean(p) => vicen = UnmaskedVolume(p))

\* the step stored a positive snow volume at an ocean point in the category
\* and met a land point whose unmasked volume is positive and in category
C8_Witness ==
    /\ fn = "engine_step" /\ ret # NoRet
    /\ \E p, q \in DOMAIN Stored("vsnon_") :
          /\ InCategoryOnOcean(p)
          /\ Below(<<0, 0>>, Stored("vsnon_")[p])
          /\ MaskRho(arg.gseed, CellOf(q)[1], CellOf(q)[2]) = 0
          /\ CatMask(Hice(arg.cseed, arg.clm_idx, CellOf(q)[1], CellOf(q)[2]), arg.n)
          /\ Below(<<0, 0>>, UnmaskedVolume(q))


----------------------------------------------------------------------------
(* Datasets.  A dataset keeps its dimensions and variables in creation     *)
(* order (the order of Dataset.variables.keys()).  Ordered dicts are       *)
(* sequences of <<key, value>> pairs.                                      *)

KeySet(d) == { d[k][1] : k \in DOMAIN d }
Has(d, key) == key \in KeySet(d)
Get(d, key) == d[CHOOSE k \in DOMAIN d : d[k][1] = key][2]
\* d[key] = value: in place when the key is there, appended otherwise
Set(d, key, value) ==
    IF Has(d, key)
    THEN [k \in DOMAIN d |-> IF d[k][1] = key THEN <<key, value>> ELSE d[k]]
    ELSE Append(d, <<key, value>>)

Range(seq) == { seq[k] : k \in DOMAIN seq }

\* netCDF4.Dataset(path, mode="w"): a new, empty dataset
EmptyFile == [exists |-> TRUE, dims |-> <<>>, vars |-> <<>>, attrs |-> <<>>, data |-> <<>>]

\* self.dims.values()
DimNames == <<"days", "ice_types", "nkice", "xi_t", "eta_t">>

\* the number of ice categories of the boundary file (len(cat_lims) - 1)
NCat == Len(cat_lims) - 1

\* dimension sizes that fit the source grids, with d days and z levels
FittingDims(d, z) ==
    <<<<"days", d>>, <<"ice_types", NCat>>, <<"nkice", z>>, <<"xi_t", NXi>>, <<"eta_t", NEta>>>>

\* seq without its entries equal to x
Without(seq, x) == SelectSeq(seq, LAMBDA y : y # x)

LoadNames == [k \in DOMAIN LoadBryVars |-> LoadBryVars[k].name]

\* variable lists of the boundary files that may already be on disk: the
\* catalog in its order or with its first variable created last, with one
\* catalog variable left out or none (""), with a foreign variable created
\* last or not at all
ExistingVarLists ==
    { front \o Without(order, gone) \o back :
        order \in {LoadNames, Tail(LoadNames) \o <<Head(LoadNames)>>},
        gone \in {"", LoadNames[1]},
        front \in {<<>>},
        back \in {<<>>, <<"extra">>} }

\* an earlier boundary file that holds exactly the catalog
CompleteFile ==
    [exists |-> TRUE, dims |-> FittingDims(MaxDays, MaxNz), vars |-> LoadNames, attrs |-> <<>>,
     data |-> [v \in Range(LoadNames) |-> <<>>]]

ExistingFiles ==
    { [exists |-> TRUE, dims |-> FittingDims(MaxDays, MaxNz), vars |-> vs, attrs |-> <<>>,
       data |-> [v \in Range(vs) |-> <<>>]] :
      vs \in { l \in ExistingVarLists : Cardinality(Range(l)) = Len(l) } }


----------------------------------------------------------------------------
(* The object: a CiceBryHax and the datasets it opens.  Init is the state  *)
(* before the constructor runs, with the boundary path absent or holding   *)
(* an earlier boundary file.                                               *)

\* what the last call did: the method, the exception it raised ("none": it
\* returned) and the name the exception carries
Res(op, err, what) == [op |-> op, err |-> err, what |-> what]

Init ==
    /\ obj = "none" /\ mode = "None"
    /\ file \in {NoFile, CompleteFile}
    /\ orphans = 0
    /\ bry = Absent /\ grid = Absent /\ clm = Absent /\ atm = Absent
    /\ dim_sizes = NoDims /\ start_date = NoDate /\ end_date = NoDate
    /\ time_units = NoUnits /\ bry_vars = <<>>
    /\ res = Res("none", "none", "")
    /\ hist = [set_dims |-> FALSE, dels |-> 0, times |-> <<>>]
    /\ NoStudy

\* netCDF4.Dataset(path, mode): a new open dataset object; closes counts
\* the close() calls made on it
Opened(kind, rw, seed) == [st |-> "open", kind |-> kind, rw |-> rw, seed |-> seed, closes |-> 0]

\* Dataset.isopen()
IsOpen(h) == h.st = "open"

\* the boundary dataset can be written through self.bry
Writable == bry # Absent /\ IsOpen(bry) /\ bry.rw = "w"

\* the mode strings drawn for the constructor
Modes == {"r", "w", "a"}

\* a variant of OpenDecision that ignores overwrite
OpenDecisionOverwriting(m, exists, overwrite) ==
    IF m = "r" THEN (IF exists THEN "read" ELSE "IOError")
    ELSE IF m = "w" THEN "create"
    ELSE "ValueError"

\* what CiceBry.__init__ does about the boundary file: "read" (open it
\* read-only), "create" (create it anew), or the exception it raises
OpenDecision(m, exists, overwrite) ==
    IF m = "r" THEN (IF exists THEN "read" ELSE "IOError")
    ELSE IF m = "w" THEN (IF exists /\ ~overwrite THEN "IOError" ELSE "create")
    ELSE "ValueError"

\* CiceBryHax.__init__(bry_file, mode, fmt, overwrite)
Construct(m, overwrite) ==
    /\ obj = "none"
    /\ mode' = m
    /\ bry_vars' = LoadBryVars
    /\ LET decision == OpenDecision(m, file.exists, overwrite) IN
       IF decision = "read"
       THEN /\ bry' = Opened("bry", "r", 0)
            /\ file' = file
            /\ obj' = "live" /\ grid' = None /\ clm' = None /\ atm' = None
            /\ res' = Res("__init__", "none", "")
       ELSE IF decision = "create"
       THEN /\ bry' = Opened("bry", "w", 0)
            /\ file' = EmptyFile
            /\ obj' = "live" /\ grid' = None /\ clm' = None /\ atm' = None
            /\ res' = Res("__init__", "none", "")
       ELSE /\ obj' = "failed"
            /\ res' = Res("__init__", decision, "")
            /\ UNCHANGED <<file, bry, grid, clm, atm>>
    /\ UNCHANGED <<orphans, dim_sizes, start_date, end_date, time_units, hist>>
    /\ UNCHANGED pureVars

\* the object is alive and its destructor has not run
Usable == obj = "live" /\ hist.dels = 0

\* set_dates(start_date, end_date, units)
SetDates(s, e, u) ==
    /\ Usable
    /\ start_date' = s /\ end_date' = e /\ time_units' = u
    /\ res' = Res("set_dates", "none", "")
    /\ UNCHANGED <<obj, mode, file, orphans, bry, grid, clm, atm, dim_sizes, bry_vars, hist>>
    /\ UNCHANGED pureVars

\* the keyword arguments drawn for set_dims: <<name, <<type, size>>>> pairs
IntArg(n) == <<"int", n>>
DimArgs ==
    LET fit == FittingDims(MaxDays, MaxNz)
        full == [k \in DOMAIN fit |-> <<fit[k][1], IntArg(fit[k][2])>>]
    IN  { full,
          Tail(full),
          <<full[1]>>,
          Append(full, <<"zeta", IntArg(1)>>),
          [full EXCEPT ![3] = <<"nkice", <<"float", 1>>>>] }

\* a variant of AllDimsSpecified that is content with one required dimension
SomeDimSpecified(sizes) == \E k \in DOMAIN DimNames : Has(sizes, DimNames[k])

\* the check of lines 125-130 on one keyword argument: the exception it raises
ArgError(name, size) ==
    IF name \notin Range(DimNames) THEN "ValueError"
    ELSE IF size[1] # "int" THEN "TypeError"
    ELSE "none"

\* the check of line 142: every required dimension has a size
AllDimsSpecified(sizes) == \A k \in DOMAIN DimNames : Has(sizes, DimNames[k])

\* set_dims(auto_time, **dim_sizes)
SetDims(auto_time, kwargs) ==
    /\ Usable
    /\ hist' = [hist EXCEPT !.set_dims = TRUE]
    /\ LET bad == { k \in DOMAIN kwargs : ArgError(kwargs[k][1], kwargs[k][2]) # "none" }
           copy == [k \in DOMAIN kwargs |-> <<kwargs[k][1], kwargs[k][2][2]>>]
           timed == Set(copy, "days", (end_date - start_date) + 1)
       IN  IF bad # {}
           THEN \* the first offending argument in the dict's iteration order raises
                /\ LET k == Min(bad) IN
                     res' = Res("set_dims", ArgError(kwargs[k][1], kwargs[k][2]), kwargs[k][1])
                /\ UNCHANGED dim_sizes
           ELSE IF auto_time /\ (start_date = NoDate \/ end_date = NoDate)
           THEN /\ dim_sizes' = [sizes |-> copy]
                /\ res' = Res("set_dims", "ValueError", "dates")
           ELSE LET final == IF auto_time THEN timed ELSE copy IN
                /\ dim_sizes' = [sizes |-> final]
                /\ res' = Res("set_dims",
                              IF AllDimsSpecified(final) THEN "none" ELSE "ValueError", "")
    /\ UNCHANGED <<obj, mode, file, orphans, bry, grid, clm, atm,
                   start_date, end_date, time_units, bry_vars>>
    /\ UNCHANGED pureVars

RECURSIVE CreateDimensions(_, _)
\* createDimension(name, size) for every entry of todo, in order, until one
\* raises: the dimensions of the dataset afterwards and the exception
CreateDimensions(dims, todo) ==
    IF todo = <<>> THEN [dims |-> dims, err |-> "none", what |-> ""]
    ELSE IF Has(dims, Head(todo)[1])
    THEN [dims |-> dims, err |-> "RuntimeError", what |-> Head(todo)[1]]
    ELSE CreateDimensions(Append(dims, Head(todo)), Tail(todo))

\* write_dims()
WriteDims ==
    /\ Usable
    /\ IF dim_sizes = NoDims
       THEN /\ res' = Res("write_dims", "AttributeError", "")
            /\ file' = file
       ELSE IF ~Writable
       THEN /\ res' = Res("write_dims",
                          IF dim_sizes.sizes = <<>> THEN "none" ELSE "RuntimeError", "")
            /\ file' = file
       ELSE LET made == CreateDimensions(file.dims, dim_sizes.sizes) IN
            /\ file' = [file EXCEPT !.dims = made.dims]
            /\ res' = Res("write_dims", made.err, made.what)
    /\ UNCHANGED <<obj, mode, orphans, bry, grid, clm, atm, dim_sizes,
                   start_date, end_date, time_units, bry_vars, hist>>
    /\ UNCHANGED pureVars

RECURSIVE CreateVariables(_, _, _, _)
\* createVariable for the BryVars todo[lo..hi] in order, up to the first
\* that fails: the loop over a range is the loop over its first half
\* followed, unless that raised, by the loop over its second half
CreateVariables(f, todo, lo, hi) ==
    IF lo > hi THEN [file |-> f, err |-> "none", what |-> ""]
    ELSE IF lo = hi
    THEN LET var == todo[lo] IN
         IF var.name \in Range(f.vars)
         THEN [file |-> f, err |-> "RuntimeError", what |-> var.name]
         ELSE IF \E k \in DOMAIN var.dims : ~Has(f.dims, var.dims[k])
         THEN [file |-> f, err |-> "ValueError", what |-> var.name]
         ELSE [file |-> [f EXCEPT !.vars = Append(f.vars, var.name),
                                  !.data = (var.name :> <<>>) @@ f.data],
               err |-> "none", what |-> ""]
    ELSE LET mid == (lo + hi) \div 2
             first == CreateVariables(f, todo, lo, mid)
         IN  IF first.err # "none" THEN first
             ELSE CreateVariables(first.file, todo, mid + 1, hi)

\* write_vars()
WriteVars ==
    /\ Usable
    /\ IF ~Writable
       THEN /\ res' = Res("write_vars", "RuntimeError", "")
            /\ file' = file
       ELSE LET made == CreateVariables(file, bry_vars, 1, Len(bry_vars)) IN
            /\ file' = made.file
            /\ res' = Res("write_vars", made.err, made.what)
    /\ UNCHANGED <<obj, mode, orphans, bry, grid, clm, atm, dim_sizes,
                   start_date, end_date, time_units, bry_vars, hist>>
    /\ UNCHANGED pureVars


\* an attribute value that is None rather than text

\* the attribute names of a BryVar in the order of its dict
AttrOrder(attrs) ==
    IF DOMAIN attrs = {"long_name", "units"} THEN <<"long_name", "units">>
    ELSE IF DOMAIN attrs = {"long_name"} THEN <<"long_name">>
    ELSE <<>>

RECURSIVE SetAttrs(_, _, _, _)
\* setattr(variable, name, value) for the attributes of one BryVar, in order
SetAttrs(f, var, order, writable) ==
    IF order = <<>> THEN [file |-> f, err |-> "none", what |-> ""]
    ELSE IF ~writable THEN [file |-> f, err |-> "RuntimeError", what |-> var.name]
    ELSE IF var.attrs[Head(order)] = "<None>"
    THEN [file |-> f, err |-> "TypeError", what |-> var.name]
    ELSE LET old == IF var.name \in DOMAIN f.attrs THEN f.attrs[var.name] ELSE <<>>
             new == (Head(order) :> var.attrs[Head(order)]) @@ old
         IN  SetAttrs([f EXCEPT !.attrs = (var.name :> new) @@ f.attrs], var, Tail(order), writable)

RECURSIVE WriteVarAttrsOn(_, _, _, _, _)
\* write_var_attrs(): for every BryVar of todo[lo..hi], look its variable up
\* in the dataset (KeyError when it is not there) and set its attributes;
\* the loop over a range is the loop over its first half followed, unless
\* that raised, by the loop over its second half
WriteVarAttrsOn(f, todo, writable, lo, hi) ==
    IF lo > hi THEN [file |-> f, err |-> "none", what |-> ""]
    ELSE IF lo = hi
    THEN LET var == todo[lo] IN
         IF var.name \notin Range(f.vars)
         THEN [file |-> f, err |-> "KeyError", what |-> var.name]
         ELSE SetAttrs(f, var, AttrOrder(var.attrs), writable)
    ELSE LET mid == (lo + hi) \div 2
             first == WriteVarAttrsOn(f, todo, writable, lo, mid)
         IN  IF first.err # "none" THEN first
             ELSE WriteVarAttrsOn(first.file, todo, writable, mid + 1, hi)

\* [v.name for v in self.bry_vars].index(var_name), 1-based; 0 when absent
IndexOf(vs, var_name) ==
    IF \E k \in DOMAIN vs : vs[k].name = var_name
    THEN Min({ k \in DOMAIN vs : vs[k].name = var_name })
    ELSE 0

\* self.bry_vars after set_var_attr assigned the attribute
WithAttr(vs, idx, attr_name, attr_val) ==
    [vs EXCEPT ![idx].attrs = (attr_name :> attr_val) @@ @]

\* the text of a units record, as set_dates receives it
UnitsText(u) ==
    IF u = NoUnits THEN "<None>"
    ELSE "days since " \o ToString(u.since)

\* the first variable of vs that the dataset does not hold (0: none)
FirstMissing(vs, keys) ==
    IF \E k \in DOMAIN vs : vs[k].name \notin Range(keys)
    THEN Min({ k \in DOMAIN vs : vs[k].name \notin Range(keys) })
    ELSE 0

\* a variant of FirstUnneeded that looks the keys up among the keys
FirstUnneededAmongKeys(keys, necessary_vars) ==
    IF \E k \in DOMAIN keys : keys[k] \notin Range(keys)
    THEN Min({ k \in DOMAIN keys : keys[k] \notin Range(keys) })
    ELSE 0

\* the first key of the dataset that is no necessary variable (0: none)
FirstUnneeded(keys, necessary_vars) ==
    IF \E k \in DOMAIN keys : keys[k] \notin Range(necessary_vars)
    THEN Min({ k \in DOMAIN keys : keys[k] \notin Range(necessary_vars) })
    ELSE 0

\* self.bry_vars after the loop `for var.name in self.bry.variables.keys()`
\* ran up to key number upto: the loop variable of the first loop, the last
\* BryVar, had every key assigned to its name in turn
AfterKeyLoop(vs, keys, upto) ==
    IF upto = 0 \/ vs = <<>> THEN vs ELSE [vs EXCEPT ![Len(vs)].name = keys[upto]]

\* verify_variables()
VerifyVariables ==
    /\ Usable
    /\ LET necessary_vars == LoadNames
           keys == file.vars
           missing == FirstMissing(bry_vars, keys)
           unneeded == FirstUnneeded(keys, necessary_vars)
       IN  IF missing # 0
           THEN /\ res' = Res("verify_variables", "ValueError: not in file", bry_vars[missing].name)
                /\ bry_vars' = bry_vars
           ELSE IF unneeded # 0
           THEN /\ res' = Res("verify_variables", "ValueError: not needed", keys[unneeded])
                /\ bry_vars' = AfterKeyLoop(bry_vars, keys, unneeded)
           ELSE /\ res' = Res("verify_variables", "none", "")
                /\ bry_vars' = AfterKeyLoop(bry_vars, keys, Len(keys))
    /\ UNCHANGED <<obj, mode, file, orphans, bry, grid, clm, atm, dim_sizes,
                   start_date, end_date, time_units, hist>>
    /\ UNCHANGED pureVars

\* the source files on disk, by seed; NoSuchFile names a path that does not exist
NoSuchFile == 0 - 1
SourceSeeds == {NoSuchFile, 0}

\* the open datasets the object stops referring to when attribute old is
\* reassigned; no statement of the object closes them
Orphaned(old) == IF old # Absent /\ old # None /\ IsOpen(old) THEN 1 ELSE 0

\* set_grid, set_clm, set_atm: self.<kind> = netCDF4.Dataset(path, mode="r").
\* Whether the dataset that was attached before is finalised (and so closed)
\* by the runtime at the reassignment depends on the interpreter and on other
\* references to it: both outcomes are taken.
Attach(kind, seed) ==
    /\ Usable
    /\ IF seed = NoSuchFile
       THEN /\ res' = Res("set_" \o kind, "IOError", "")
            /\ UNCHANGED <<orphans, grid, clm, atm>>
       ELSE LET old == IF kind = "grid" THEN grid ELSE IF kind = "clm" THEN clm ELSE atm IN
            /\ \E finalised \in BOOLEAN :
                 LET left == IF finalised THEN 0 ELSE Orphaned(old) IN
                 /\ orphans + left <= MaxOrphans
                 /\ orphans' = orphans + left
            /\ grid' = IF kind = "grid" THEN Opened(kind, "r", seed) ELSE grid
            /\ clm' = IF kind = "clm" THEN Opened(kind, "r", seed) ELSE clm
            /\ atm' = IF kind = "atm" THEN Opened(kind, "r", seed) ELSE atm
            /\ res' = Res("set_" \o kind, "none", "")
    /\ UNCHANGED <<obj, mode, file, bry, dim_sizes, start_date, end_date,
                   time_units, bry_vars, hist>>
    /\ UNCHANGED pureVars

SetGrid(seed) == Attach("grid", seed)
SetClm(seed) == Attach("clm", seed)
SetAtm(seed) == Attach("atm", seed)


\* the time variables of the source files. The climatology of seed 0 holds
\* one record per day from day 0 on, that of seed 1 one record every second
\* day, that of seed 2 its first day twice; the atmosphere holds every second
\* day from seed on
ClmTimeVar(seed) ==
    [vals |-> [k \in 1..(MaxDays + 1) |->
                  IF seed = 1 THEN 2 * (k - 1)
                  ELSE IF seed = 2 THEN (k - 1) \div 2
                  ELSE k - 1],
     units |-> [since |-> 0]]
AtmTimeVar(seed) == [vals |-> [k \in 1..MaxDays |-> 2 * (k - 1)], units |-> [since |-> seed]]

\* line 514: bry_idx = clm_idx - t0c_idx
BryIdx(clm_idx, t0c_idx) == clm_idx - t0c_idx

RECURSIVE WriteWalls(_, _, _, _)
\* lines 505-508: TLON_<b>[:] and TLAT_<b>[:] for the walls from number k on;
\* an assignment of a transect to a variable of another length raises
WriteWalls(f, gseed, k, coor) ==
    IF k > Len(bry_order) THEN [file |-> f, err |-> "none", what |-> ""]
    ELSE LET b == bry_order[k]
             grid_slice == GridSlice2d(b)
         IN  IF Len(grid_slice) # Get(f.dims, Str(coor[b]))
             THEN [file |-> f, err |-> "ValueError", what |-> VarTLON(b)]
             ELSE WriteWalls(
                    [f EXCEPT !.data =
                        Put(Put(f.data, VarTLON(b), <<>>,
                                [p \in DOMAIN grid_slice |-> LonRho(gseed, grid_slice[p][1], grid_slice[p][2])]),
                            VarTLAT(b), <<>>,
                            [p \in DOMAIN grid_slice |-> LatRho(gseed, grid_slice[p][1], grid_slice[p][2])])],
                    gseed, k + 1, coor)

RECURSIVE WallLoop(_, _, _, _, _, _, _, _, _, _)
\* line 523: the engine step of every wall from number k on; the step of
\* one wall has stored its values in the file before the next one starts
WallLoop(data, cseed, aseed, gseed, clm_idx, bry_idx, atm_idx, n, nz, k) ==
    IF k > Len(bry_order) THEN data
    ELSE LET stepped == EngineStep(data, cseed, aseed, gseed, clm_idx, bry_idx, atm_idx, n,
                                   bry_order[k], nz)
         IN  IF DOMAIN stepped = DOMAIN data
             THEN WallLoop(stepped, cseed, aseed, gseed, clm_idx, bry_idx, atm_idx, n, nz, k + 1)
             ELSE stepped

RECURSIVE CatLoop(_, _, _, _, _, _, _, _, _)
\* line 519: the categories from n on; writing category n of a variable
\* with fewer categories raises
CatLoop(f, cseed, aseed, gseed, clm_idx, bry_idx, atm_idx, n, nz) ==
    IF n \notin Categories THEN [file |-> f, err |-> "none", what |-> ""]
    ELSE IF n >= Get(f.dims, "ice_types")
    THEN [file |-> f, err |-> "IndexError", what |-> VarAicen(bry_order[1])]
    ELSE CatLoop([f EXCEPT !.data = WallLoop(f.data, cseed, aseed, gseed, clm_idx, bry_idx,
                                             atm_idx, n, nz, 1)],
                 cseed, aseed, gseed, clm_idx, bry_idx, atm_idx, n + 1, nz)

RECURSIVE TimeLoop(_, _, _, _, _, _, _, _, _, _, _)
\* line 512: for clm_idx in range(t0c_idx, t1c_idx + 1), from clm_idx on;
\* times lists the indices at which line 516 wrote Time, in the order written
TimeLoop(f, cseed, aseed, gseed, bry_time, clm_dates, atm_dates, t0c_idx, t1c_idx, nz, clm_idx) ==
    IF clm_idx > t1c_idx THEN [file |-> f, err |-> "none", what |-> "", times |-> <<>>]
    ELSE LET bry_idx == BryIdx(clm_idx, t0c_idx)
             atm_idx == AtmIdx(atm_dates, At0(clm_dates, clm_idx))
         IN  IF bry_idx >= Get(f.dims, "days")
             THEN [file |-> f, err |-> "IndexError", what |-> "Time", times |-> <<>>]
             ELSE LET f1 == [f EXCEPT !.data = Put(f.data, "Time", <<bry_idx>>, At0(bry_time, bry_idx))]
                      f2 == CatLoop(f1, cseed, aseed, gseed, clm_idx, bry_idx, atm_idx, 0, nz)
                  IN  IF f2.err # "none"
                      THEN [file |-> f2.file, err |-> f2.err, what |-> f2.what,
                            times |-> <<bry_idx>>]
                      ELSE LET rest == TimeLoop(f2.file, cseed, aseed, gseed, bry_time, clm_dates,
                                                atm_dates, t0c_idx, t1c_idx, nz, clm_idx + 1)
                           IN  [rest EXCEPT !.times = <<bry_idx>> \o @]

\* lines 485-563 of write_bry_data, after set_var_attr: the time arrays, the
\* time-independent variables and the loop
WriteData(f, sizes, cseed, aseed, gseed, start, end, units) ==
    LET time == ComputeBryTime(start, end, units, ClmTimeVar(cseed))
        clm_dates == GetTimeArray(ClmTimeVar(cseed), "datetime").time
        atm_dates == GetTimeArray(AtmTimeVar(aseed), "datetime").time
        ends == GetTimeEndpoints(start, end, ClmTimeVar(cseed))
    IN  IF time.status # "ok"
        THEN [file |-> f, err |-> time.status, what |-> "", times |-> <<>>]
        ELSE IF ~Has(sizes, "nkice")
        THEN [file |-> f, err |-> "KeyError", what |-> "nkice", times |-> <<>>]
        ELSE IF Get(sizes, "nkice") # Get(f.dims, "nkice")
        THEN [file |-> f, err |-> "ValueError", what |-> "Ice_layers", times |-> <<>>]
        ELSE LET nz == Get(sizes, "nkice")
                 f1 == [f EXCEPT !.data = Put(f.data, "Ice_layers", <<>>, [k \in 1..nz |-> k - 1])]
                 f2 == WriteWalls(f1, gseed, 1, bry_to_coor)
             IN  IF f2.err # "none"
                 THEN [file |-> f2.file, err |-> f2.err, what |-> f2.what, times |-> <<>>]
                 ELSE TimeLoop(f2.file, cseed, aseed, gseed, time.bry_time, clm_dates, atm_dates,
                               ends.start_idx, ends.end_idx, nz, ends.start_idx)

\* a variant of MissingSource that reports the grid whichever source is unset
MissingSourceAlwaysGrid(g, c, a) ==
    IF g = None \/ c = None \/ a = None THEN "grid" ELSE "none"

\* lines 476-481: the source write_bry_data finds unset ("none": all are set)
MissingSource(g, c, a) ==
    IF g = None THEN "grid" ELSE IF c = None THEN "clm" ELSE IF a = None THEN "atm" ELSE "none"

\* write_bry_data(); hist.times keeps the Time indices the call wrote
WriteBryData ==
    /\ Usable
    /\ LET missing == MissingSource(grid, clm, atm) IN
       IF missing # "none"
       THEN /\ res' = Res("write_bry_data", "AttributeError", missing)
            /\ hist' = [hist EXCEPT !.times = <<>>]
            /\ UNCHANGED <<bry_vars, file>>
       ELSE \* set_var_attr("Time", "units", self.time_units, update_file=True)
            /\ bry_vars' = WithAttr(bry_vars, IndexOf(bry_vars, "Time"), "units", UnitsText(time_units))
            /\ LET attrs == WriteVarAttrsOn(file, bry_vars', Writable, 1, Len(bry_vars')) IN
               IF attrs.err # "none"
               THEN /\ file' = attrs.file
                    /\ res' = Res("write_bry_data", attrs.err, attrs.what)
                    /\ hist' = [hist EXCEPT !.times = <<>>]
               ELSE LET done == WriteData(attrs.file, dim_sizes.sizes, clm.seed,
                                          atm.seed, grid.seed,
                                          start_date, end_date, time_units)
                    IN  /\ file' = done.file
                        /\ res' = Res("write_bry_data", done.err, done.what)
                        /\ hist' = [hist EXCEPT !.times = done.times]
    /\ UNCHANGED <<obj, mode, orphans, bry, grid, clm, atm, dim_sizes,
                   start_date, end_date, time_units>>
    /\ UNCHANGED pureVars

\* a variant of ShouldCloseSource without the isopen() test
ShouldCloseSourceUnchecked(h) == h # Absent /\ h # None

\* the guard of the close() of CiceBryHax.__del__:
\* hasattr(self, name) and self.<name> is not None and self.<name>.isopen()
ShouldCloseSource(h) == h # Absent /\ h # None /\ IsOpen(h)

\* the guard of the close() of CiceBry.__del__:
\* hasattr(self, "bry") and self.bry.isopen()
ShouldCloseBry(h) == h # Absent /\ IsOpen(h)

\* what self.<name>.close() does: it raises on an attribute that is missing
\* or None and on a dataset that is closed already
CloseOutcome(h) ==
    IF h = Absent \/ h = None THEN "AttributeError"
    ELSE IF h.st # "open" THEN "RuntimeError"
    ELSE "none"

\* the dataset after a close() that succeeded
Closed(h) == [h EXCEPT !.st = "closed", !.closes = @ + 1]

\* one guarded close of a destructor, reached unless an earlier one raised:
\* the exception so far and the attribute afterwards
GuardedClose(err, guard, h) ==
    IF err # "none" \/ ~guard THEN [err |-> err, h |-> h]
    ELSE IF CloseOutcome(h) # "none" THEN [err |-> CloseOutcome(h), h |-> h]
    ELSE [err |-> "none", h |-> Closed(h)]

\* CiceBry.__del__, entered with the exception raised so far
CiceBryDel(err) == GuardedClose(err, ShouldCloseBry(bry), bry)

\* CiceBryHax.__del__: grid, clm, atm, then the superclass destructor
Del ==
    /\ obj # "none"
    /\ hist.dels < MaxDels
    /\ LET g == GuardedClose("none", ShouldCloseSource(grid), grid)
           c == GuardedClose(g.err, ShouldCloseSource(clm), clm)
           a == GuardedClose(c.err, ShouldCloseSource(atm), atm)
           b == CiceBryDel(a.err)
       IN  /\ grid' = g.h /\ clm' = c.h /\ atm' = a.h /\ bry' = b.h
           /\ res' = Res("__del__", b.err, "")
    /\ hist' = [hist EXCEPT !.dels = @ + 1]
    /\ UNCHANGED <<obj, mode, file, orphans, dim_sizes,
                   start_date, end_date, time_units, bry_vars>>
    /\ UNCHANGED pureVars

\* the arguments drawn for set_dates: a period inside the climatology, a
\* single day, and a period that ends after the climatology
DateArgs ==
    { <<0, MaxDays - 1, [since |-> 0]>>,
      <<1, 1, [since |-> 1]>>,
      <<0, MaxDays + 1, [since |-> 0]>> }

\* the keyword arguments of a caller that sizes the file for the source grids
FitDimArgs ==
    { [k \in 1..5 |-> <<FittingDims(MaxDays, z)[k][1], IntArg(FittingDims(MaxDays, z)[k][2])>>] :
      z \in {MaxNz} }

\* a generation run: the object is built, configured, fed its sources,
\* asked for the boundary data and disposed of, in any order
Next ==
    \/ \E m \in Modes, overwrite \in BOOLEAN : Construct(m, overwrite)
    \/ \E d \in DateArgs : SetDates(d[1], d[2], d[3])
    \/ \E kwargs \in FitDimArgs : SetDims(FALSE, kwargs)
    \/ WriteDims
    \/ WriteVars
    \/ \E seed \in SourceSeeds : SetGrid(seed)
    \/ \E seed \in SourceSeeds : SetClm(seed)
    \/ \E seed \in SourceSeeds : SetAtm(seed)
    \/ WriteBryData
    \/ Del

Spec == Init /\ [][Next]_vars

\* the accessor alone: a boundary file is declared, or an earlier one is
\* opened, and verified
InitAccessor ==
    /\ obj = "none" /\ mode = "None"
    /\ file \in {NoFile} \cup ExistingFiles
    /\ orphans = 0
    /\ bry = Absent /\ grid = Absent /\ clm = Absent /\ atm = Absent
    /\ dim_sizes = NoDims /\ start_date = NoDate /\ end_date = NoDate
    /\ time_units = NoUnits /\ bry_vars = <<>>
    /\ res = Res("none", "none", "")
    /\ hist = [set_dims |-> FALSE, dels |-> 0, times |-> <<>>]
    /\ NoStudy

NextAccessor ==
    \/ \E m \in Modes, overwrite \in BOOLEAN : Construct(m, overwrite)
    \/ \E d \in { x \in DateArgs : x[3].since = 0 } : SetDates(d[1], d[2], d[3])
    \/ \E auto_time \in BOOLEAN, kwargs \in DimArgs : SetDims(auto_time, kwargs)
    \/ WriteDims
    \/ WriteVars
    \/ VerifyVariables
    \/ Del

SpecAccessor == InitAccessor /\ [][NextAccessor]_vars

\* the climatology files of a generation run: daily records, records every
\* second day
ClmSeeds == {0, 1}

\* the period of a generation run: day 0 to day 2, counted in days since
\* day 0
RunDateArgs == { <<0, 2, [since |-> 0]>> }

\* the keyword arguments of a caller who leaves the days to auto_time
AutoDimArgs == { Tail(kwargs) : kwargs \in FitDimArgs }

\* the state after CiceBryHax(path, mode="w"), set_grid(...) and
\* set_atm(...) on a path where no file was
InitRun ==
    /\ obj = "live" /\ mode = "w"
    /\ file = EmptyFile
    /\ orphans = 0
    /\ bry = Opened("bry", "w", 0)
    /\ grid = Opened("grid", "r", 0) /\ clm = None /\ atm = Opened("atm", "r", 0)
    /\ dim_sizes = NoDims /\ start_date = NoDate /\ end_date = NoDate
    /\ time_units = NoUnits /\ bry_vars = LoadBryVars
    /\ res = Res("set_atm", "none", "")
    /\ hist = [set_dims |-> FALSE, dels |-> 0, times |-> <<>>]
    /\ NoStudy

\* a generation run on a new boundary file whose time dimension is sized
\* from the dates
NextRun ==
    \/ \E d \in RunDateArgs : SetDates(d[1], d[2], d[3])
    \/ \E kwargs \in AutoDimArgs : SetDims(TRUE, kwargs)
    \/ WriteDims
    \/ WriteVars
    \/ \E seed \in ClmSeeds : SetClm(seed)
    \/ WriteBryData

SpecRun == InitRun /\ [][NextRun]_vars

----------------------------------------------------------------------------
(* The loop body of write_bry_data (lines 523-563) run for two (time,       *)
(* category, wall) triples whose statements are taken in any interleaving, *)
(* on a file that holds every catalog variable and no data yet.            *)

\* the (time, category, wall) triples of a period of MaxDays days
OrderTriples ==
    { [t |-> t, n |-> n, b |-> b] :
        t \in 0..(MaxDays - 1), n \in Categories, b \in Range(bry_order) }

\* the place of a triple in the order of the loops of lines 512, 519, 523
LoopRank(tr) ==
    (tr.t * NCat + tr.n) * Len(bry_order)
        + (CHOOSE i \in DOMAIN bry_order : bry_order[i] = tr.b)

\* line 515 for the climatology record clm_idx of a run from record 0 on
OrderAtmIdx(aseed, cseed, clm_idx) ==
    AtmIdx(GetTimeArray(AtmTimeVar(aseed), "datetime").time,
           At0(GetTimeArray(ClmTimeVar(cseed), "datetime").time, clm_idx))

\* the first triple precedes the second in the order of the loops
InitOrder ==
    /\ NoObject
    /\ fn = "loop_body"
    /\ arg \in { [cseed |-> 0, aseed |-> 0, gseed |-> 0, nz |-> MaxNz, triples |-> pair] :
                  pair \in { xy \in OrderTriples \X OrderTriples :
                                 LoopRank(xy[1]) < LoopRank(xy[2]) } }
    /\ ret = [status |-> "running", data |-> EmptyData, done |-> <<0, 0>>, swapped |-> FALSE]

\* the next statement of triple j runs on the file as it is; swapped
\* records that a statement of the second triple ran before the first
\* triple was through
RunStatement(j) ==
    /\ fn = "loop_body" /\ ret.done[j] < NStmts
    /\ LET tr == arg.triples[j]
           atm_idx == OrderAtmIdx(arg.aseed, arg.cseed, tr.t)
       IN  ret' = [ret EXCEPT
                     !.data = EngineStmt(@, arg.cseed, arg.aseed, arg.gseed, tr.t, BryIdx(tr.t, 0),
                                         atm_idx, tr.n, tr.b, arg.nz, ret.done[j] + 1),
                     !.done[j] = @ + 1,
                     !.swapped = @ \/ (j = 2 /\ ret.done[1] < NStmts)]
    /\ UNCHANGED <<fn, arg>>
    /\ UNCHANGED objVars

NextOrder == \E j \in DOMAIN arg.triples : RunStatement(j)

SpecOrder == InitOrder /\ [][NextOrder]_vars

----------------------------------------------------------------------------
(* Properties of the object.                                               *)

\* the sources write_bry_data finds unattached in the current state
Unattached ==
    { k \in {"grid", "clm", "atm"} :
        \/ (k = "grid" /\ grid = None)
        \/ (k = "clm" /\ clm = None)
        \/ (k = "atm" /\ atm = None) }

(* C4: a write_bry_data call made while the grid, the climatology or the
   atmosphere source is not attached raises the configuration error, the
   error names a source that is not attached, and the call leaves the
   boundary dataset (attributes, time and data values), the in-memory
   catalog and the boundary handle as they were. *)
C4_FailsBeforeChanging ==
    [][(res'.op = "write_bry_data" /\ Unattached # {}) =>
          /\ res'.err = "AttributeError"
          /\ res'.what \in Unattached
          /\ file' = file
          /\ bry_vars' = bry_vars
          /\ bry' = bry]_vars

\* write_bry_data failed for the atmosphere alone, on an object that is
\* otherwise configured
C4_Witness ==
    /\ res.op = "write_bry_data" /\ res.err = "AttributeError" /\ res.what = "atm"
    /\ grid # None /\ clm # None /\ atm = None
    /\ dim_sizes # NoDims /\ start_date # NoDate

\* the datasets the object refers to after a step
HeldAfter == { h \in {bry', grid', clm', atm'} : h # Absent /\ h # None }

(* C6: every run of the destructor completes without an exception, so it
   never calls close() on an attribute that holds no dataset or on a dataset
   that is closed; no dataset is closed more than once; and a run after the
   first changes no dataset, no attribute and nothing on disk.  This covers
   objects whose constructor raised before opening the boundary file and
   objects with sources never attached. *)
C6_Disposal ==
    [][res'.op = "__del__" =>
          /\ res'.err = "none"
          /\ \A h \in HeldAfter : h.closes <= 1 /\ ~IsOpen(h)
          /\ (hist.dels >= 1 =>
                <<bry', grid', clm', atm', file', orphans', bry_vars', dim_sizes'>>
                  = <<bry, grid, clm, atm, file, orphans, bry_vars, dim_sizes>>)]_vars

\* the destructor ran twice on an object with the grid attached and the
\* climatology never attached
C6_Witness ==
    /\ hist.dels = 2 /\ obj = "live"
    /\ grid # None /\ grid.closes = 1
    /\ clm = None
    /\ bry.closes = 1 /\ ~IsOpen(bry)

(* C10: the constructor with mode "r" on an existing file opens it read-only
   and leaves it as it is; with mode "w" it creates a new, empty file unless
   the path exists and overwrite is false, and then it raises the existence
   error, holds no boundary handle and leaves the file as it is; with any
   other mode it raises the invalid-argument error and holds no handle. *)
C10_Constructor ==
    [][\A m \in Modes, overwrite \in BOOLEAN :
          Construct(m, overwrite) =>
            /\ (m = "r" /\ file.exists =>
                  res'.err = "none" /\ IsOpen(bry') /\ bry'.rw = "r" /\ file' = file)
            /\ (m = "w" /\ ~(file.exists /\ ~overwrite) =>
                  res'.err = "none" /\ IsOpen(bry') /\ bry'.rw = "w" /\ file' = EmptyFile)
            /\ (m = "w" /\ file.exists /\ ~overwrite =>
                  res'.err = "IOError" /\ bry' = Absent /\ file' = file)
            /\ (m \notin {"r", "w"} =>
                  res'.err = "ValueError" /\ bry' = Absent /\ file' = file)]_vars

\* the constructor refused to overwrite an existing boundary file
C10_Witness ==
    /\ res.op = "__init__" /\ res.err = "IOError"
    /\ mode = "w" /\ file = CompleteFile /\ bry = Absent

(* C1, as amended: verify_variables returns True exactly when the variable
   names of the boundary dataset are the catalog names of load_bry_vars; when
   a catalog variable is absent it raises naming an absent catalog variable;
   when no catalog variable is absent and the dataset holds a variable that
   is not in the catalog it raises naming such a variable. *)
C1_VerifyVariables ==
    res.op = "verify_variables" =>
        LET keys == Range(file.vars)
            catalog == Range(LoadNames)
        IN  /\ (res.err = "none" <=> keys = catalog)
            /\ (catalog \ keys # {} =>
                  res.err = "ValueError: not in file" /\ res.what \in catalog \ keys)
            /\ (catalog \subseteq keys /\ keys \ catalog # {} =>
                  res.err = "ValueError: not needed" /\ res.what \in keys \ catalog)

(* C1 as stated: whenever the dataset holds a variable that is not in the
   catalog, verify_variables raises naming that variable. *)
C1_AsStated ==
    res.op = "verify_variables" =>
        LET keys == Range(file.vars)
            catalog == Range(LoadNames)
        IN  /\ (res.err = "none" <=> keys = catalog)
            /\ (catalog \ keys # {} => res.what \in catalog \ keys)
            /\ (keys \ catalog # {} => res.what \in keys \ catalog)

\* verify_variables raised for a foreign variable of a dataset that holds
\* the whole catalog
C1_Witness ==
    /\ res.op = "verify_variables" /\ res.err = "ValueError: not needed"
    /\ res.what = "extra"
    /\ Range(LoadNames) \subseteq Range(file.vars)

(* C5: set_dims returns only when, after auto_time put the days in, every
   one of the five required dimension names has a size; it raises an
   argument error when a keyword is no dimension name and when a required
   name is missing; write_dims raises, and creates nothing, when set_dims was
   never called. *)
C5_SetDims ==
    [][/\ \A auto_time \in BOOLEAN, kwargs \in DimArgs :
            SetDims(auto_time, kwargs) =>
              LET supplied == KeySet(kwargs) \cup (IF auto_time THEN {"days"} ELSE {})
                  required == Range(DimNames)
              IN  /\ (res'.err = "none" =>
                        /\ required \subseteq supplied
                        /\ required \subseteq KeySet(dim_sizes'.sizes))
                  /\ (~(KeySet(kwargs) \subseteq required) => res'.err = "ValueError")
                  /\ (~(required \subseteq supplied) =>
                        res'.err \in {"ValueError", "TypeError"})
       /\ (res'.op = "write_dims" /\ ~hist.set_dims) =>
              res'.err = "AttributeError" /\ file' = file]_vars

\* set_dims returned with the days taken from the dates
C5_Witness ==
    /\ res.op = "set_dims" /\ res.err = "none"
    /\ dim_sizes # NoDims
    /\ Len(dim_sizes.sizes) = 5
    /\ dim_sizes.sizes[5] = <<"days", (end_date - start_date) + 1>>

(* C14: once the destructor has run, every dataset the object opened is
   closed: the datasets it still refers to and those it stopped referring to
   when a source of the same kind was attached again. *)
C14_AllClosed ==
    hist.dels >= 1 =>
        /\ orphans = 0
        /\ \A h \in {bry, grid, clm, atm} : (h # Absent /\ h # None) => ~IsOpen(h)

(* C15: a call of verify_variables, returning or raising, leaves
   self.bry_vars as it was. *)
C15_CatalogUntouched ==
    [][res'.op = "verify_variables" => bry_vars' = bry_vars]_vars

(* C16: self.dim_sizes is unset or holds a size for every one of the five
   required dimension names, and the boundary file never holds some of the
   five dimensions without the others. *)
C16_UnsetOrComplete ==
    /\ (dim_sizes = NoDims \/ Range(DimNames) \subseteq KeySet(dim_sizes.sizes))
    /\ (file.exists =>
          (KeySet(file.dims) = {} \/ Range(DimNames) \subseteq KeySet(file.dims)))

\* the number of days of the period, both end days included
NDays == (end_date - start_date) + 1

\* write_bry_data returned, and the time dimension of the boundary file
\* has the size set_dims(auto_time=True) derives from the current dates
CompletedAutoTimed ==
    /\ res.op = "write_bry_data" /\ res.err = "none"
    /\ dim_sizes # NoDims /\ Has(dim_sizes.sizes, "days")
    /\ Get(dim_sizes.sizes, "days") = NDays
    /\ Get(file.dims, "days") = NDays

(* C13: when the time dimension has the size N_days that auto_time derives
   from the dates, a completed write_bry_data has written Time at the
   indices 0, 1, ..., N_days - 1, each once and in increasing order,
   whatever climatology time axis holds the two dates. *)
C13_TimeIndices ==
    CompletedAutoTimed =>
        /\ hist.times = [k \in 1..NDays |-> k - 1]
        /\ DOMAIN file.data["Time"] = { <<i>> : i \in 0..(NDays - 1) }

\* the climatology records dated within the period, and the time indices
\* of the boundary file they are asked to fill
ClmRecordsInPeriod ==
    LET time_var == ClmTimeVar(clm.seed) IN
    { k \in DOMAIN time_var.vals :
        /\ start_date <= Num2Date(time_var.vals[k], time_var.units)
        /\ Num2Date(time_var.vals[k], time_var.units) <= end_date }

RequestedTimes == 0..(Cardinality(ClmRecordsInPeriod) - 1)

\* the variable names the statements of write_bry_data assign to
EngineWrites ==
    {"Time", "Ice_layers"}
    \cup UNION { {VarTLON(b), VarTLAT(b), VarAicen(b), VarVicen(b), VarVsnon(b),
                  VarTsfc(b), VarSinz(b), VarTinz(b)} \cup Range(ZeroVarNames[b]) :
                 b \in Range(bry_order) }

\* the per-category families and the walls
Families == {"Tsfc", "aicen", "vicen", "vsnon", "apond", "hpond", "ipond", "fbrine",
             "hbrine", "iage", "alvln", "vlvln", "Tinz", "Sinz"}

Directions == {"W", "S", "E", "N"}

\* what a completed call is to have filled: <<variable, leading indices>>
Expected ==
    { <<"Time", <<i>>>> : i \in RequestedTimes }
    \cup { <<"Ice_layers", <<>>>> }
    \cup { <<"TLON_" \o d, <<>>>> : d \in Directions }
    \cup { <<"TLAT_" \o d, <<>>>> : d \in Directions }
    \cup { <<fam \o "_" \o d \o "_bry", <<i, n>>>> :
             fam \in Families, d \in Directions, i \in RequestedTimes, n \in 0..4 }

(* C12: when write_bry_data has returned, the variables that hold data are
   the variables of the catalog and the statements assign to no other name:
   Time holds a value at every requested time index, Ice_layers and the
   TLON and TLAT of every direction hold their values, and each of the 14
   families holds a row at every requested time index, category 0..4 and
   direction. *)
C12_EveryVariableWritten ==
    (res.op = "write_bry_data" /\ res.err = "none") =>
        /\ { e[1] : e \in Expected } = CatalogNames
        /\ EngineWrites \subseteq CatalogNames
        /\ { name \in DOMAIN file.data : DOMAIN file.data[name] # {} } = CatalogNames
        /\ \A e \in Expected : e[2] \in DOMAIN file.data[e[1]]

\* a call returned after filling three time indices
C12_Witness ==
    /\ res.op = "write_bry_data" /\ res.err = "none"
    /\ hist.times = <<0, 1, 2>>
    /\ <<2, 4>> \in DOMAIN file.data["Sinz_N_bry"]

\* the file after the loop body ran for the first triple and then for the
\* second, as the loops of write_bry_data take them
SequentialData ==
    LET x == arg.triples[1]
        y == arg.triples[2]
        dx == EngineStep(EmptyData, arg.cseed, arg.aseed, arg.gseed, x.t, x.t,
                         OrderAtmIdx(arg.aseed, arg.cseed, x.t), x.n, x.b, arg.nz)
    IN  EngineStep(dx, arg.cseed, arg.aseed, arg.gseed, y.t, y.t,
                   OrderAtmIdx(arg.aseed, arg.cseed, y.t), y.n, y.b, arg.nz)

AllStatementsRun == fn = "loop_body" /\ \A j \in DOMAIN arg.triples : ret.done[j] = NStmts

(* C11: whatever the order in which the statements of two (time, category,
   wall) triples are interleaved, each triple's statements in their own
   order, the file holds at the end what it holds when the loop body runs
   for the two triples one after the other in the order of the loops. *)
C11_OrderIndependent == AllStatementsRun => ret.data = SequentialData

\* two triples of the same wall and category were interleaved and are through
C11_Witness ==
    /\ AllStatementsRun /\ ret.swapped
    /\ arg.triples[1].b = arg.triples[2].b
    /\ arg.triples[1].n = arg.triples[2].n
    /\ \E p \in DOMAIN ret.data[VarVsnon(arg.triples[1].b)][<<arg.triples[1].t, arg.triples[1].n>>] :
          ret.data[VarVsnon(arg.triples[1].b)][<<arg.triples[1].t, arg.triples[1].n>>][p] # Zero

=============================================================================
